---------------------------- MODULE Spec2Model ----------------------------
(***************************************************************************)
(* Model of find_optimal_periods (src/app.py, lines 174-311) and of the    *)
(* helpers it calls: ftoc and calculate_rh.                                *)
(*                                                                         *)
(* Representation of the Python values:                                    *)
(*   - an optional value is a sequence of length 0 (None) or 1 (<<v>>);    *)
(*   - a naive datetime is a count of whole hours since Monday 00:00 of    *)
(*     some week (the forecast is hourly, so minutes are always 00), and a *)
(*     timestamp string of the payload is identified with it;              *)
(*   - an aware datetime is a record [wall, zone]: the wall clock in hours *)
(*     and the zone it carries;                                            *)
(*   - temperatures are whole degrees Fahrenheit; a Celsius temperature is *)
(*     held exactly, in 1/900 of a degree (ninths for ftoc, hundredths for *)
(*     the constant 243.12); precipitation is in hundredths of a           *)
(*     millimetre; relative humidity is in hundredths of a percent;        *)
(*   - a dict is a function whose DOMAIN is its key set.                   *)
(*                                                                         *)
(* One call of find_optimal_periods is one behaviour: Setup, one ScanHour  *)
(* per timestamp, CloseOverall, one DailyHour per timestamp, Finish; a     *)
(* call that raises ends in pc = "raised". The arguments are fixed by the  *)
(* initial state. Spec draws them for the two scans (several hours, any    *)
(* zone), SpecHour for the per-hour checks (rows drawn field by field),    *)
(* SpecAqi for the join of the AQI payload, SpecRef for the conversion of  *)
(* the reference temperature. SpecRh is one call of calculate_rh alone.    *)
(***************************************************************************)
EXTENDS Integers, Sequences, FiniteSets, TLC

VARIABLES
    weather_data,        \* argument: the weather payload
    aqi_data,            \* argument: the AQI payload
    inputs,              \* argument: WeatherInputs
    system_tz,           \* the zone of the process (TZ of the host), read by astimezone
    pc,                  \* position in find_optimal_periods
    raised,              \* the exception that ended the call, "" if none
    aqi_values_dict,     \* line 186
    aq_available,        \* line 187
    tz,                  \* lines 201-206
    indoor_ref_temp_c,   \* line 207
    overall_good_periods_text,  \* line 216
    overall_start_time,  \* line 217
    hourly_data_list,    \* line 218
    checks,              \* the locals of the last iteration of the first loop (229-243)
    overall_intervals,   \* the (overall_start_time, end_time) pairs formatted at 263/271
    daily_chart_data_map,        \* line 276
    daily_good_intervals_map,    \* line 277
    daily_good_periods_text_map, \* line 278
    current_day_str,     \* line 280
    daily_start_dt,      \* line 284
    last_dt_local,       \* line 285
    k,                   \* number of entries of hourly_data_list the second loop has taken
    result,              \* the returned ForecastResult, <<>> while there is none
    rh_args,             \* the arguments (temp_c, dew_point_c) of a call of calculate_rh
    rh_value             \* the value that call returned

vars == <<weather_data, aqi_data, inputs, system_tz, pc, raised, aqi_values_dict,
          aq_available, tz, indoor_ref_temp_c, overall_good_periods_text,
          overall_start_time, hourly_data_list, checks, overall_intervals,
          daily_chart_data_map, daily_good_intervals_map,
          daily_good_periods_text_map, current_day_str, daily_start_dt,
          last_dt_local, k, result, rh_args, rh_value>>

\* the variables of a call of calculate_rh alone
rh_vars == <<rh_args, rh_value>>

args == <<weather_data, aqi_data, inputs, system_tz>>

----------------------------------------------------------------------------
(* Bounds of the model *)

\* longest timestamp axis of the weather payload
MaxHours == 4
\* longest timestamp axis of the weather payload when the rows are drawn from
\* the full product of the field values
MaxHourRows == 1
\* longest array of the AQI payload
MaxAqi == 2

----------------------------------------------------------------------------
(* Python values *)

None == <<>>
Some(v) == <<v>>
IsNone(x) == x = <<>>
Val(x) == x[1]

\* a value that is not a number and not None, such as a str
NonNumeric == <<"str", "str">>

\* dict.get(key) with the default None
DictGet(d, key) == IF key \in DOMAIN d THEN d[key] ELSE None

\* the empty dict
EmptyDict == [x \in {} |-> None]

\* d[key] = v
DictPut(d, key, v) == [x \in (DOMAIN d) \cup {key} |-> IF x = key THEN v ELSE d[x]]

\* [v] * n
Repeat(v, n) == [i \in 1..n |-> v]

----------------------------------------------------------------------------
(* Time *)

\* pytz.timezone(name) succeeds for these and raises UnknownTimeZoneError otherwise
KnownZones == {"UTC", "Atlantic/Cape_Verde"}

\* UTC offset in hours of a zone (both zones have no daylight saving time)
UtcOffset(zone) == IF zone = "Atlantic/Cape_Verde" THEN -1 ELSE 0

\* tz.localize(naive): the wall clock is kept, the zone is attached
Localize(naive, zone) == [wall |-> naive, zone |-> zone]

\* naive.astimezone(zone) in a process whose zone is local_zone: a naive
\* datetime is presumed to be in the zone of the process
AsTimezoneFrom(naive, zone, local_zone) ==
    [wall |-> naive - UtcOffset(local_zone) + UtcOffset(zone), zone |-> zone]

\* naive.astimezone(zone) in this process
AsTimezone(naive, zone) == AsTimezoneFrom(naive, zone, system_tz)

\* dt + timedelta(hours=n): wall clock arithmetic, the zone is kept
PlusHours(dt, n) == [wall |-> dt.wall + n, zone |-> dt.zone]

\* the instant of an aware datetime, in hours UTC
Instant(dt) == dt.wall - UtcOffset(dt.zone)

\* dt.date()
DateOf(dt) == dt.wall \div 24

\* strftime('%a'): the day of the week, 0 is Monday
FmtA(dt) == DateOf(dt) % 7

\* strftime('%I:%M %p'): 12-hour clock
FmtTime(dt) ==
    LET h == dt.wall % 24
    IN  [I |-> IF h % 12 = 0 THEN 12 ELSE h % 12, M |-> 0,
         p |-> IF h < 12 THEN "AM" ELSE "PM"]

\* strftime('%a %I:%M %p')
FmtDayTime(dt) == [a |-> Some(FmtA(dt)), t |-> FmtTime(dt)]

\* strftime('%I:%M %p') where the day name is left out
FmtTimeOnly(dt) == [a |-> None, t |-> FmtTime(dt)]

\* strftime('%a %Y-%m-%d'): the key of a day bucket
DayStr(dt) == [a |-> FmtA(dt), ymd |-> DateOf(dt)]

\* the (start_fmt, end_fmt) pair of lines 263-264 and 271-272
OverallText(start, end) ==
    <<FmtDayTime(start),
      IF DateOf(start) = DateOf(end) THEN FmtTimeOnly(end) ELSE FmtDayTime(end)>>

\* a text that gives the start of the interval twice
DailyText_StartTwice(start, end) == [start |-> FmtTime(start), end |-> FmtTime(start)]

\* the f"{start_fmt} - {end_fmt}" text of lines 292-293, 299-300, 303-304
DailyText(start, end) == [start |-> FmtTime(start), end |-> FmtTime(end)]

----------------------------------------------------------------------------
(* Helper functions *)

\* ftoc: (f - 32) * 5 / 9, in 1/900 of a degree Celsius
ftoc(f) == IF IsNone(f) THEN None ELSE Some((Val(f) - 32) * 500)

\* line 42: f - 32 raises TypeError when f is not a number
ftoc_raises(f) == f = NonNumeric

\* 6.112 * math.exp((17.62 * c) / (243.12 + c)) in thousandths of a hPa, for
\* the Celsius temperatures (in ninths) of 20 F to 80 F, as Python evaluates it
MagnusTable ==
       -60 :> 3719 @@ -55 :> 3880 @@ -50 :> 4048 @@ -45 :> 4222 @@ -40 :> 4402 @@
       -35 :> 4590 @@ -30 :> 4784 @@ -25 :> 4986 @@ -20 :> 5195 @@ -15 :> 5412 @@
       -10 :> 5637 @@ -5 :> 5870 @@ 0 :> 6112 @@ 5 :> 6363 @@ 10 :> 6622 @@
       15 :> 6891 @@ 20 :> 7170 @@ 25 :> 7458 @@ 30 :> 7757 @@ 35 :> 8066 @@
       40 :> 8386 @@ 45 :> 8717 @@ 50 :> 9060 @@ 55 :> 9415 @@ 60 :> 9782 @@
       65 :> 10161 @@ 70 :> 10554 @@ 75 :> 10959 @@ 80 :> 11379 @@ 85 :> 11812 @@
       90 :> 12260 @@ 95 :> 12723 @@ 100 :> 13202 @@ 105 :> 13696 @@ 110 :> 14206 @@
       115 :> 14733 @@ 120 :> 15277 @@ 125 :> 15839 @@ 130 :> 16418 @@ 135 :> 17017 @@
       140 :> 17634 @@ 145 :> 18271 @@ 150 :> 18929 @@ 155 :> 19606 @@ 160 :> 20306 @@
       165 :> 21027 @@ 170 :> 21770 @@ 175 :> 22536 @@ 180 :> 23326 @@ 185 :> 24140 @@
       190 :> 24979 @@ 195 :> 25843 @@ 200 :> 26733 @@ 205 :> 27651 @@ 210 :> 28595 @@
       215 :> 29568 @@ 220 :> 30569 @@ 225 :> 31601 @@ 230 :> 32662 @@ 235 :> 33754 @@
       240 :> 34879

\* b = 243.12 (line 56), in 1/900 of a degree Celsius
MagnusB == 218808

\* (a * c) / (b + c) with a = 17.62 (lines 55, 58), in hundredths, rounded down
MagnusExponent(c) == (1762 * c) \div (MagnusB + c)

\* the exception of 6.112 * math.exp((a * c) / (b + c)), "" when it returns a
\* value: the division raises at c = -b, and math.exp raises above 709.78
MagnusRaises(c) ==
    IF MagnusB + c = 0 THEN "ZeroDivisionError"
    ELSE IF MagnusExponent(c) > 70978 THEN "OverflowError"
    ELSE ""

\* the value of 6.112 * math.exp((a * c) / (b + c)): math.exp returns 0.0
\* below -745.14, and the table holds the values of 20 F to 80 F
MagnusVaporPressure(c) ==
    IF MagnusExponent(c) < -74514 THEN 0 ELSE MagnusTable[c \div 100]

\* the exception of calculate_rh, "" when it returns: es is computed first
calculate_rh_raises(temp_c, dew_point_c) ==
    IF IsNone(temp_c) \/ IsNone(dew_point_c) THEN ""
    ELSE IF MagnusRaises(Val(temp_c)) # "" THEN MagnusRaises(Val(temp_c))
    ELSE MagnusRaises(Val(dew_point_c))

\* calculate_rh, in hundredths of a percent
calculate_rh(temp_c, dew_point_c) ==
    IF IsNone(temp_c) \/ IsNone(dew_point_c) THEN None
    ELSE LET es == MagnusVaporPressure(Val(temp_c))
             e  == MagnusVaporPressure(Val(dew_point_c))
         IN  IF es <= 0 THEN None
             ELSE LET rh == (e * 10000) \div es
                      lo == IF rh > 0 THEN rh ELSE 0
                  IN  Some(IF lo < 10000 THEN lo ELSE 10000)

\* WeatherInputs with its default field values
WeatherInputs ==
    [min_temp |-> 67, max_temp |-> 79, min_rh |-> 30, max_rh |-> 60,
     indoor_ref_temp |-> Some(69), max_aqi |-> 50, max_precip_prob |-> 10]

----------------------------------------------------------------------------
(* The per-hour evaluation, lines 229-243 *)

\* the locals of one iteration before the checks run (lines 229-231)
NoChecks ==
    [exc |-> "", primary_data_ok |-> FALSE, predicted_rh_in |-> None,
     temp_ok |-> FALSE, rh_ok |-> FALSE, precip_ok |-> FALSE,
     precip_prob_ok |-> FALSE, aqi_ok |-> FALSE, is_good |-> FALSE]

\* line 237
TempOk(temp_out_f, inp) ==
    inp.min_temp <= Val(temp_out_f) /\ Val(temp_out_f) <= inp.max_temp

\* line 238, the humidity in hundredths of a percent
RhOk(predicted_rh_in, inp) ==
    IF IsNone(predicted_rh_in) THEN FALSE
    ELSE inp.min_rh * 100 <= Val(predicted_rh_in)
         /\ Val(predicted_rh_in) <= inp.max_rh * 100

\* line 239: precip < 0.1, the precipitation in hundredths of a millimetre
PrecipOk(precip) == Val(precip) < 10

\* line 240, for a precipitation probability that is a number
PrecipProbOk(precip_probability, inp) ==
    Val(precip_probability) <= inp.max_precip_prob

\* AqiOk that fails every hour without an AQI value, usable payload or not
AqiOk_Strict(aqi, aq_avail, inp) == ~IsNone(aqi) /\ Val(aqi) <= inp.max_aqi

\* lines 241-242
AqiOk(aqi, aq_avail, inp) ==
    IF aq_avail THEN (~IsNone(aqi) /\ Val(aqi) <= inp.max_aqi) ELSE TRUE

\* IsGood without the precipitation-probability check
IsGood_NoProb(temp_ok, rh_ok, precip_ok, precip_prob_ok, aqi_ok) ==
    temp_ok /\ rh_ok /\ precip_ok /\ aqi_ok

\* line 243
IsGood(temp_ok, rh_ok, precip_ok, precip_prob_ok, aqi_ok) ==
    temp_ok /\ rh_ok /\ precip_ok /\ precip_prob_ok /\ aqi_ok

\* line 232
PrimaryDataOk(temp_out_f, dew_point_out_f, precip) ==
    ~IsNone(temp_out_f) /\ ~IsNone(dew_point_out_f) /\ ~IsNone(precip)

\* lines 235-243, the body of "if primary_data_ok"; exc is "TypeError" when
\* line 240 compares None with a number, and the call ends there
EvalChecks(temp_out_f, dew_point_out_f, precip, precip_probability, aqi, aq_avail, ref_temp_c, inp) ==
    IF calculate_rh_raises(ref_temp_c, ftoc(dew_point_out_f)) # ""
    THEN [NoChecks EXCEPT !.exc = calculate_rh_raises(ref_temp_c, ftoc(dew_point_out_f)),
                          !.primary_data_ok = TRUE]
    ELSE IF IsNone(precip_probability)
    THEN [NoChecks EXCEPT !.exc = "TypeError", !.primary_data_ok = TRUE]
    ELSE LET dew_point_out_c == ftoc(dew_point_out_f)
             predicted_rh_in == calculate_rh(ref_temp_c, dew_point_out_c)
             temp_ok         == TempOk(temp_out_f, inp)
             rh_ok           == RhOk(predicted_rh_in, inp)
             precip_ok       == PrecipOk(precip)
             precip_prob_ok  == PrecipProbOk(precip_probability, inp)
             aqi_ok          == AqiOk(aqi, aq_avail, inp)
         IN  [exc |-> "", primary_data_ok |-> TRUE,
              predicted_rh_in |-> predicted_rh_in,
              temp_ok |-> temp_ok, rh_ok |-> rh_ok, precip_ok |-> precip_ok,
              precip_prob_ok |-> precip_prob_ok, aqi_ok |-> aqi_ok,
              is_good |-> IsGood(temp_ok, rh_ok, precip_ok, precip_prob_ok, aqi_ok)]

\* EvalHour with the precipitation-probability comparison of line 240 moved out
\* of the "if primary_data_ok" block
EvalHour_ProbUnguarded(temp_out_f, dew_point_out_f, precip, precip_probability, aqi, aq_avail, ref_temp_c, inp) ==
    IF IsNone(precip_probability) THEN [NoChecks EXCEPT !.exc = "TypeError"]
    ELSE IF ~PrimaryDataOk(temp_out_f, dew_point_out_f, precip) THEN NoChecks
    ELSE EvalChecks(temp_out_f, dew_point_out_f, precip, precip_probability, aqi,
                    aq_avail, ref_temp_c, inp)

\* lines 229-243: the locals of one iteration after the checks
EvalHour(temp_out_f, dew_point_out_f, precip, precip_probability, aqi, aq_avail, ref_temp_c, inp) ==
    IF ~PrimaryDataOk(temp_out_f, dew_point_out_f, precip) THEN NoChecks
    ELSE EvalChecks(temp_out_f, dew_point_out_f, precip, precip_probability, aqi,
                    aq_avail, ref_temp_c, inp)

----------------------------------------------------------------------------
(* The arrays of the payloads, lines 179-195 *)

Hourly == weather_data.hourly

\* line 180
times == Hourly.time
\* line 181
temps_f == Hourly.temperature_2m
\* line 182
dew_points_f == Hourly.dew_point_2m

\* line 183
precip_mm ==
    IF "precipitation" \in Hourly.keys THEN Hourly.precipitation
    ELSE Repeat(Some(0), Len(times))

\* line 184
precip_prob ==
    IF "precipitation_probability" \in Hourly.keys
    THEN Hourly.precipitation_probability
    ELSE Repeat(Some(0), Len(times))

\* line 224: precip_prob[i] if i < len(precip_prob) else 0.0 (i counts from 1 here)
PrecipProbabilityAt(i) ==
    IF i <= Len(precip_prob) THEN precip_prob[i] ELSE Some(0)

\* line 188
AqiUsable(aqi) ==
    /\ aqi.keys # {}
    /\ "hourly" \in aqi.keys
    /\ "time" \in aqi.hourly.keys

\* line 191: aq_hourly.get('us_aqi')
AqiVals(aqi) ==
    IF "us_aqi" \in aqi.hourly.keys THEN Some(aqi.hourly.us_aqi) ELSE None

\* lines 188-193
AqAvailable(aqi) ==
    /\ AqiUsable(aqi)
    /\ ~IsNone(AqiVals(aqi))
    /\ Len(aqi.hourly.time) = Len(Val(AqiVals(aqi)))

\* the AQI array joined to the weather timestamp axis by position
AqiValuesDict_ByPosition(aq_times, aqi_vals) ==
    [t \in {times[n] : n \in (DOMAIN times) \cap (DOMAIN aqi_vals)} |->
        aqi_vals[CHOOSE n \in (DOMAIN times) \cap (DOMAIN aqi_vals) : times[n] = t]]

\* lines 194-195: a later entry for the same time string replaces an earlier one
AqiValuesDict(aq_times, aqi_vals) ==
    [t \in {aq_times[n] : n \in DOMAIN aq_times} |->
        LET last == CHOOSE n \in DOMAIN aq_times :
                        /\ aq_times[n] = t
                        /\ \A m \in DOMAIN aq_times : aq_times[m] = t => m <= n
        IN  aqi_vals[last]]

\* the zone string of the payload taken as it is, without the fallback
Timezone_NoFallback(w) == IF "timezone" \in w.keys THEN w.timezone ELSE "UTC"

\* lines 201-206
Timezone(w) ==
    LET api_timezone_str ==
            IF "timezone" \in w.keys THEN w.timezone ELSE "UTC"
    IN  IF api_timezone_str \in KnownZones THEN api_timezone_str ELSE "UTC"

----------------------------------------------------------------------------
(* The inputs of a call *)

\* the sequences over S of length at most n
SeqsUpTo(S, n) == UNION {[1..m -> S] : m \in 0..n}

\* n consecutive hourly timestamps from t0
HourlyFrom(t0, n) == [i \in 1..n |-> t0 + i - 1]

\* a weather payload with every key, and rows as given
WeatherPayload(zone, time, rows) ==
    [keys |-> {"timezone", "hourly"}, timezone |-> zone,
     hourly |->
        [keys |-> {"time", "temperature_2m", "dew_point_2m", "precipitation",
                   "precipitation_probability"},
         time |-> time,
         temperature_2m |-> [i \in DOMAIN rows |-> rows[i].temp],
         dew_point_2m |-> [i \in DOMAIN rows |-> rows[i].dew],
         precipitation |-> [i \in DOMAIN rows |-> rows[i].precip],
         precipitation_probability |-> [i \in DOMAIN rows |-> rows[i].prob]]]

\* the payload w without a top-level key
WithoutKey(w, key) == [w EXCEPT !.keys = @ \ {key}]

\* the payload w without a key of its hourly section; the array goes with it
WithoutHourly(w, key) ==
    [w EXCEPT !.hourly = [[@ EXCEPT !.keys = @ \ {key}] EXCEPT ![key] = <<>>]]

\* an AQI payload with every key
AqiPayload(time, us_aqi) ==
    [keys |-> {"latitude", "hourly"},
     hourly |-> [keys |-> {"time", "us_aqi"}, time |-> time, us_aqi |-> us_aqi]]

\* aqi_data is None (or the empty dict)
NoAqi == [keys |-> {}, hourly |-> [keys |-> {}, time |-> <<>>, us_aqi |-> <<>>]]

\* a row every check accepts, with the default thresholds and no AQI payload
GoodRow == [temp |-> Some(70), dew |-> Some(50), precip |-> Some(0), prob |-> Some(0)]

\* rows for the scans: admissible; too hot; without a temperature and with a null
\* precipitation probability; complete but for a null precipitation probability
ScanRows ==
    {GoodRow,
     [GoodRow EXCEPT !.temp = Some(85)],
     [GoodRow EXCEPT !.temp = None, !.prob = None],
     [GoodRow EXCEPT !.prob = None]}

\* the first timestamp of a payload: 9 PM or 11 PM of the Monday
StartHours == {21, 23}

\* the timezone strings a weather payload reports
ZoneStrings == {"UTC", "Atlantic/Cape_Verde", "Mars/Olympus"}

\* weather payloads of the scans: up to MaxHours hourly rows, in any zone, and the
\* structurally incomplete payloads
ScanWeather ==
    LET full == {WeatherPayload(z, HourlyFrom(t0, Len(rows)), rows) :
                    z \in ZoneStrings, t0 \in StartHours,
                    rows \in SeqsUpTo(ScanRows, MaxHours)}
        one  == WeatherPayload("UTC", <<23>>, <<GoodRow>>)
    IN  full
        \cup {WithoutKey(w, "timezone") : w \in full}
        \cup {[one EXCEPT !.keys = {}], WithoutKey(one, "hourly"),
              WithoutHourly(one, "time"), WithoutHourly(one, "temperature_2m"),
              WithoutHourly(one, "dew_point_2m")}

\* the values of one row, field by field
TempValues == {None, Some(70), Some(80)}
DewValues == {None, Some(50), Some(60)}
PrecipValues == {None, Some(0), Some(10)}
ProbValues == {None, Some(10), Some(11)}
AqiValues == {None, Some(50), Some(51)}

\* weather payloads for the per-hour checks: up to MaxHourRows rows drawn field by
\* field; the precipitation array may be left out, the precipitation-probability
\* array may be left out or shorter than the timestamp axis
HourWeather ==
    UNION {
        LET time == HourlyFrom(23, n)
            full == {[keys |-> {"timezone", "hourly"}, timezone |-> "UTC",
                      hourly |->
                        [keys |-> {"time", "temperature_2m", "dew_point_2m",
                                   "precipitation", "precipitation_probability"},
                         time |-> time, temperature_2m |-> t, dew_point_2m |-> d,
                         precipitation |-> p, precipitation_probability |-> q]] :
                        t \in [1..n -> TempValues], d \in [1..n -> DewValues],
                        p \in [1..n -> PrecipValues], q \in SeqsUpTo(ProbValues, n)}
        IN  full
            \cup {WithoutHourly(w, "precipitation") :
                    w \in {x \in full : \A i \in 1..n : x.hourly.precipitation[i] = Some(0)}}
            \cup {WithoutHourly(w, "precipitation_probability") :
                    w \in {x \in full : x.hourly.precipitation_probability = <<>>}}
        : n \in 1..MaxHourRows}

\* AQI payloads for the per-hour checks: none, or one value for every weather hour
HourAqi(w) ==
    {NoAqi} \cup {AqiPayload(w.hourly.time, [i \in DOMAIN w.hourly.time |-> v]) :
                    v \in AqiValues \ {None}}

\* rows for the AQI join: admissible but for the AQI; too hot; without a
\* temperature and with a null precipitation probability
JoinRows ==
    {GoodRow, [GoodRow EXCEPT !.temp = Some(85)],
     [GoodRow EXCEPT !.temp = None, !.prob = None]}

\* weather payloads for the AQI join: up to MaxAqi rows
AqiWeather ==
    {WeatherPayload("UTC", HourlyFrom(23, Len(rows)), rows) :
        rows \in SeqsUpTo(JoinRows, MaxAqi) \ {<<>>}}

\* the sequences of SeqsUpTo(S, n) that hold no element twice
DistinctSeqsUpTo(S, n) ==
    {q \in SeqsUpTo(S, n) : \A i, j \in DOMAIN q : q[i] = q[j] => i = j}

\* AQI payloads: a timestamp axis of up to MaxAqi of the weather timestamps in
\* any order, an AQI array of up to MaxAqi entries, of equal or different
\* lengths, with any key left out
JoinAqi ==
    LET full == {AqiPayload(t, v) :
                    t \in DistinctSeqsUpTo({23 + j : j \in 0..(MaxAqi - 1)}, MaxAqi),
                    v \in SeqsUpTo(AqiValues, MaxAqi)}
    IN  full
        \cup {[a EXCEPT !.hourly.keys = {"us_aqi"}] : a \in {x \in full : x.hourly.time = <<>>}}
        \cup {[a EXCEPT !.hourly.keys = {"time"}] : a \in {x \in full : x.hourly.us_aqi = <<>>}}
        \cup {NoAqi, [NoAqi EXCEPT !.keys = {"latitude"}]}

----------------------------------------------------------------------------
(* The call *)

\* the locals of find_optimal_periods before its first statement
NoLocals ==
    /\ raised = ""
    /\ aqi_values_dict = EmptyDict
    /\ aq_available = FALSE
    /\ tz = "UTC"
    /\ indoor_ref_temp_c = None
    /\ overall_good_periods_text = <<>>
    /\ overall_start_time = None
    /\ hourly_data_list = <<>>
    /\ checks = NoChecks
    /\ overall_intervals = <<>>
    /\ daily_chart_data_map = EmptyDict
    /\ daily_good_intervals_map = EmptyDict
    /\ daily_good_periods_text_map = EmptyDict
    /\ current_day_str = None
    /\ daily_start_dt = None
    /\ last_dt_local = None
    /\ k = 0
    /\ result = None

\* a call of find_optimal_periods about to start
InitLocals ==
    /\ pc = "start"
    /\ NoLocals
    /\ rh_args = <<None, None>>
    /\ rh_value = None

\* calls that exercise the two scans
Init ==
    /\ weather_data \in ScanWeather
    /\ aqi_data = NoAqi
    /\ inputs = WeatherInputs
    /\ system_tz \in KnownZones
    /\ InitLocals

\* calls that exercise the per-hour checks
InitHour ==
    /\ weather_data \in HourWeather
    /\ aqi_data \in HourAqi(weather_data)
    /\ inputs = WeatherInputs
    /\ system_tz = "UTC"
    /\ InitLocals

\* calls that exercise the join of the AQI payload
InitAqi ==
    /\ weather_data \in AqiWeather
    /\ aqi_data \in JoinAqi
    /\ inputs = WeatherInputs
    /\ system_tz = "UTC"
    /\ InitLocals

\* reference temperatures of a call: a number, None, and a value that is not a number
RefTemps == {Some(69), None, NonNumeric}

\* calls that exercise the conversion of the reference temperature
InitRef ==
    /\ weather_data \in {WeatherPayload("UTC", HourlyFrom(23, Len(rows)), rows) :
                            rows \in SeqsUpTo(ScanRows, MaxHours)}
    /\ aqi_data = NoAqi
    /\ inputs \in {[WeatherInputs EXCEPT !.indoor_ref_temp = r] : r \in RefTemps}
    /\ system_tz = "UTC"
    /\ InitLocals

\* timestamps on both sides of two midnights: Mon 23:00, Tue 00:00, Wed 00:00
DayHours == {23, 24, 48}

\* the rows of the day scans: an admissible hour and a hour that is too warm
DayRows == {GoodRow, [GoodRow EXCEPT !.temp = Some(85)]}

\* calls whose timestamps come in any order, repeats included
InitDays ==
    /\ weather_data \in UNION {{WeatherPayload("UTC", t, rows) :
                                    t \in [1..n -> DayHours], rows \in [1..n -> DayRows]} :
                                 n \in 0..MaxHours}
    /\ aqi_data = NoAqi
    /\ inputs = WeatherInputs
    /\ system_tz = "UTC"
    /\ InitLocals

\* the call ends with an exception
Raise(exc) ==
    /\ pc' = "raised"
    /\ raised' = exc
    /\ UNCHANGED <<aqi_values_dict, aq_available, tz, indoor_ref_temp_c,
                   overall_good_periods_text, overall_start_time, hourly_data_list,
                   checks, overall_intervals, daily_chart_data_map,
                   daily_good_intervals_map, daily_good_periods_text_map,
                   current_day_str, daily_start_dt, last_dt_local, k, result>>

\* lines 176-218. ForecastResult has no field info, so building the error result
\* of lines 177 and 209 raises TypeError; a missing array raises KeyError.
Setup ==
    /\ pc = "start"
    /\ UNCHANGED rh_vars
    /\ UNCHANGED args
    /\ IF weather_data.keys = {} \/ "hourly" \notin weather_data.keys
          \/ "time" \notin Hourly.keys
       THEN Raise("TypeError")
       ELSE IF "temperature_2m" \notin Hourly.keys \/ "dew_point_2m" \notin Hourly.keys
       THEN Raise("KeyError")
       ELSE IF ftoc_raises(inputs.indoor_ref_temp)
       THEN Raise("TypeError")
       ELSE IF IsNone(ftoc(inputs.indoor_ref_temp))
       THEN Raise("TypeError")
       ELSE /\ aq_available' = AqAvailable(aqi_data)
            /\ aqi_values_dict' =
                  IF AqAvailable(aqi_data)
                  THEN AqiValuesDict(aqi_data.hourly.time, aqi_data.hourly.us_aqi)
                  ELSE EmptyDict
            /\ tz' = Timezone(weather_data)
            /\ indoor_ref_temp_c' = ftoc(inputs.indoor_ref_temp)
            /\ overall_good_periods_text' = <<>>
            /\ overall_start_time' = None
            /\ hourly_data_list' = <<>>
            /\ pc' = "loop1"
            /\ UNCHANGED <<raised, checks, overall_intervals, daily_chart_data_map,
                           daily_good_intervals_map, daily_good_periods_text_map,
                           current_day_str, daily_start_dt, last_dt_local, k, result>>

\* lines 220-265: one iteration of the first loop
ScanHour ==
    /\ pc = "loop1"
    /\ UNCHANGED rh_vars
    /\ Len(hourly_data_list) < Len(times)
    /\ UNCHANGED args
    /\ LET i == Len(hourly_data_list) + 1
           time_str == times[i]
       IN  IF i > Len(temps_f) \/ i > Len(dew_points_f) \/ i > Len(precip_mm)
           THEN Raise("IndexError")
           ELSE
           LET temp_out_f == temps_f[i]
               dew_point_out_f == dew_points_f[i]
               precip == precip_mm[i]
               precip_probability == PrecipProbabilityAt(i)
               aqi == DictGet(aqi_values_dict, time_str)
               dt_local == Localize(time_str, tz)
               c == EvalHour(temp_out_f, dew_point_out_f, precip, precip_probability,
                             aqi, aq_available, indoor_ref_temp_c, inputs)
           IN  IF c.exc # "" THEN Raise(c.exc)
               ELSE
               /\ checks' = c
               /\ hourly_data_list' = Append(hourly_data_list,
                      [dt_local |-> dt_local, is_good |-> c.is_good,
                       temp_f |-> temp_out_f, rh_in |-> c.predicted_rh_in,
                       p |-> precip, aqi_val |-> aqi,
                       precip_prob |-> precip_probability])
               /\ IF c.is_good /\ IsNone(overall_start_time)
                  THEN /\ overall_start_time' = Some(dt_local)
                       /\ UNCHANGED <<overall_good_periods_text, overall_intervals>>
                  ELSE IF ~c.is_good /\ ~IsNone(overall_start_time)
                  THEN /\ overall_good_periods_text' =
                            Append(overall_good_periods_text,
                                   OverallText(Val(overall_start_time), dt_local))
                       /\ overall_intervals' =
                            Append(overall_intervals, <<Val(overall_start_time), dt_local>>)
                       /\ overall_start_time' = None
                  ELSE UNCHANGED <<overall_good_periods_text, overall_intervals,
                                   overall_start_time>>
               /\ UNCHANGED <<pc, raised, aqi_values_dict, aq_available, tz,
                              indoor_ref_temp_c, daily_chart_data_map,
                              daily_good_intervals_map, daily_good_periods_text_map,
                              current_day_str, daily_start_dt, last_dt_local, k, result>>

\* the end_time of line 267
HorizonEndOverall == PlusHours(AsTimezone(times[Len(times)], tz), 1)

\* lines 266-285: the end of the first loop and the set-up of the second
CloseOverall ==
    /\ pc = "loop1"
    /\ UNCHANGED rh_vars
    /\ Len(hourly_data_list) = Len(times)
    /\ UNCHANGED args
    /\ IF ~IsNone(overall_start_time)
       THEN /\ overall_good_periods_text' =
                 Append(overall_good_periods_text,
                        OverallText(Val(overall_start_time), HorizonEndOverall))
            /\ overall_intervals' =
                 Append(overall_intervals, <<Val(overall_start_time), HorizonEndOverall>>)
       ELSE UNCHANGED <<overall_good_periods_text, overall_intervals>>
    /\ IF hourly_data_list # <<>>
       THEN LET day == DayStr(hourly_data_list[1].dt_local)
            IN  /\ current_day_str' = Some(day)
                /\ daily_chart_data_map' = DictPut(EmptyDict, day, <<>>)
                /\ daily_good_intervals_map' = DictPut(EmptyDict, day, <<>>)
                /\ daily_good_periods_text_map' = DictPut(EmptyDict, day, <<>>)
       ELSE UNCHANGED <<current_day_str, daily_chart_data_map,
                        daily_good_intervals_map, daily_good_periods_text_map>>
    /\ daily_start_dt' = None
    /\ last_dt_local' = None
    /\ k' = 0
    /\ pc' = "loop2"
    /\ UNCHANGED <<raised, aqi_values_dict, aq_available, tz, indoor_ref_temp_c,
                   overall_start_time, hourly_data_list, checks, result>>

\* a day change that leaves the open interval open
DayChangeCloses_Never(new_day, start) == FALSE

\* lines 289-290: the hour opens a new bucket while an interval is open
DayChangeCloses(new_day, start) == new_day /\ ~IsNone(start)

\* an assignment that replaces the list a dict holds under key
DictAppend_Overwrite(d, key, v) == [d EXCEPT ![key] = <<v>>]

\* list.append on the list a dict holds under key
DictAppend(d, key, v) == [d EXCEPT ![key] = Append(@, v)]

\* lines 286-300: one iteration of the second loop
DailyHour ==
    /\ pc = "loop2"
    /\ UNCHANGED rh_vars
    /\ k < Len(hourly_data_list)
    /\ UNCHANGED args
    /\ LET e == hourly_data_list[k + 1]
           dt_local == e.dt_local
           day_str == DayStr(dt_local)
           new_day == day_str \notin DOMAIN daily_chart_data_map
           \* lines 290-293: the interval open at the change of day
           cut == DayChangeCloses(new_day, daily_start_dt)
           intervals1 ==
               IF cut
               THEN DictAppend(daily_good_intervals_map, Val(current_day_str),
                               <<Val(daily_start_dt), dt_local>>)
               ELSE daily_good_intervals_map
           text1 ==
               IF cut
               THEN DictAppend(daily_good_periods_text_map, Val(current_day_str),
                               DailyText(Val(daily_start_dt),
                                         PlusHours(PlusHours(dt_local, -1), 1)))
               ELSE daily_good_periods_text_map
           start1 == IF cut THEN None ELSE daily_start_dt
           \* line 294
           day2 == IF new_day THEN day_str ELSE Val(current_day_str)
           chart2 == IF new_day THEN DictPut(daily_chart_data_map, day_str, <<>>)
                     ELSE daily_chart_data_map
           intervals2 == IF new_day THEN DictPut(intervals1, day_str, <<>>) ELSE intervals1
           text2 == IF new_day THEN DictPut(text1, day_str, <<>>) ELSE text1
           \* lines 296-300
           opens == e.is_good /\ IsNone(start1)
           closes == ~e.is_good /\ ~IsNone(start1)
       IN  /\ last_dt_local' = Some(dt_local)
           /\ current_day_str' = Some(day2)
           /\ daily_chart_data_map' = DictAppend(chart2, day2, e)
           /\ daily_good_intervals_map' =
                 IF closes THEN DictAppend(intervals2, day2, <<Val(start1), dt_local>>)
                 ELSE intervals2
           /\ daily_good_periods_text_map' =
                 IF closes THEN DictAppend(text2, day2, DailyText(Val(start1), dt_local))
                 ELSE text2
           /\ daily_start_dt' =
                 IF opens THEN Some(dt_local) ELSE IF closes THEN None ELSE start1
    /\ k' = k + 1
    /\ UNCHANGED <<pc, raised, aqi_values_dict, aq_available, tz, indoor_ref_temp_c,
                   overall_good_periods_text, overall_start_time, hourly_data_list,
                   checks, overall_intervals, result>>

\* lines 301-311: the end of the second loop and the return
Finish ==
    /\ pc = "loop2"
    /\ UNCHANGED rh_vars
    /\ k = Len(hourly_data_list)
    /\ UNCHANGED args
    /\ LET closes == hourly_data_list # <<>> /\ ~IsNone(daily_start_dt)
                     /\ ~IsNone(last_dt_local)
           end_dt == PlusHours(Val(last_dt_local), 1)
           intervals ==
               IF closes
               THEN DictAppend(daily_good_intervals_map, Val(current_day_str),
                               <<Val(daily_start_dt), end_dt>>)
               ELSE daily_good_intervals_map
           text ==
               IF closes
               THEN DictAppend(daily_good_periods_text_map, Val(current_day_str),
                               DailyText(Val(daily_start_dt), end_dt))
               ELSE daily_good_periods_text_map
       IN  /\ daily_good_intervals_map' = intervals
           /\ daily_good_periods_text_map' = text
           /\ result' = Some([periods |-> overall_good_periods_text,
                              daily_chart_data |-> daily_chart_data_map,
                              daily_good_intervals |-> intervals,
                              daily_good_periods_text |-> text])
    /\ pc' = "done"
    /\ UNCHANGED <<raised, aqi_values_dict, aq_available, tz, indoor_ref_temp_c,
                   overall_good_periods_text, overall_start_time, hourly_data_list,
                   checks, overall_intervals, daily_chart_data_map, current_day_str,
                   daily_start_dt, last_dt_local, k>>

Next == Setup \/ ScanHour \/ CloseOverall \/ DailyHour \/ Finish

Spec == Init /\ [][Next]_vars

SpecHour == InitHour /\ [][Next]_vars

SpecAqi == InitAqi /\ [][Next]_vars

SpecRef == InitRef /\ [][Next]_vars

SpecDays == InitDays /\ [][Next]_vars

----------------------------------------------------------------------------
(* A call of calculate_rh alone *)

\* Celsius arguments: None, the temperatures of the table, -b, and the
\* conversions of -406 F (just below -b) and -405 F (just above it)
RhTemps ==
    {None, Some(-MagnusB), ftoc(Some(-406)), ftoc(Some(-405))}
    \cup {Some(c * 100) : c \in DOMAIN MagnusTable}

\* a call of calculate_rh about to start
InitRh ==
    /\ rh_args \in RhTemps \X RhTemps
    /\ rh_value = None
    /\ pc = "calculate_rh"
    /\ weather_data = WeatherPayload("UTC", <<>>, <<>>)
    /\ aqi_data = NoAqi
    /\ inputs = WeatherInputs
    /\ system_tz = "UTC"
    /\ NoLocals

\* lines 48-67: the call returns a value or raises
CalculateRh ==
    /\ pc = "calculate_rh"
    /\ LET exc == calculate_rh_raises(rh_args[1], rh_args[2])
       IN  IF exc # ""
           THEN /\ pc' = "raised"
                /\ raised' = exc
                /\ rh_value' = rh_value
           ELSE /\ pc' = "returned"
                /\ raised' = raised
                /\ rh_value' = calculate_rh(rh_args[1], rh_args[2])
    /\ UNCHANGED <<args, rh_args, aqi_values_dict, aq_available, tz, indoor_ref_temp_c,
                   overall_good_periods_text, overall_start_time, hourly_data_list,
                   checks, overall_intervals, daily_chart_data_map,
                   daily_good_intervals_map, daily_good_periods_text_map,
                   current_day_str, daily_start_dt, last_dt_local, k, result>>

NextRh == CalculateRh

SpecRh == InitRh /\ [][NextRh]_vars

----------------------------------------------------------------------------
(* Properties *)

\* EvalHour with the AQI availability, reference temperature and thresholds of the call
EvalWith(temp, dew, precip, prob, aqi) ==
    EvalHour(temp, dew, precip, prob, aqi, aq_available, indoor_ref_temp_c, inputs)

\* C1: the admissibility of the hour just evaluated is the conjunction of
\* primary_data_ok and the five checks, primary_data_ok says that temperature,
\* dew point and precipitation are all present, and from an admissible hour,
\* replacing one value by any value outside its bound (temperature, dew point
\* giving a humidity out of range, precipitation of 0.1 mm or more,
\* precipitation probability, AQI when AQI is available) gives a hour that is
\* not admissible.
C1_AdmissibleIsConjunction ==
    Len(hourly_data_list) > 0 /\ pc # "start" =>
        LET i == Len(hourly_data_list)
            h == hourly_data_list[i]
            t == temps_f[i]
            d == dew_points_f[i]
            p == precip_mm[i]
            q == PrecipProbabilityAt(i)
            a == DictGet(aqi_values_dict, times[i])
        IN  /\ h.is_good = (/\ checks.primary_data_ok
                            /\ checks.temp_ok /\ checks.rh_ok /\ checks.precip_ok
                            /\ checks.precip_prob_ok /\ checks.aqi_ok)
            /\ checks.primary_data_ok = (~IsNone(t) /\ ~IsNone(d) /\ ~IsNone(p))
            /\ h.is_good =>
                /\ \A v \in 50..95 :
                      (v < inputs.min_temp \/ v > inputs.max_temp)
                          => ~EvalWith(Some(v), d, p, q, a).is_good
                /\ \A v \in 20..80 :
                      LET rh == Val(calculate_rh(indoor_ref_temp_c, ftoc(Some(v))))
                      IN  (rh < inputs.min_rh * 100 \/ rh > inputs.max_rh * 100)
                              => ~EvalWith(t, Some(v), p, q, a).is_good
                /\ \A v \in 10..30 : ~EvalWith(t, d, Some(v), q, a).is_good
                /\ \A v \in 0..100 :
                      v > inputs.max_precip_prob
                          => ~EvalWith(t, d, p, Some(v), a).is_good
                /\ \A v \in 0..200 :
                      (aq_available /\ v > inputs.max_aqi)
                          => ~EvalWith(t, d, p, q, Some(v)).is_good

\* C1 witness: an admissible hour of a call whose AQI payload is usable
C1_Witness ==
    /\ pc = "done"
    /\ aq_available
    /\ hourly_data_list[Len(hourly_data_list)].is_good

\* the hours the first loop has taken
N == Len(hourly_data_list)
At(i) == hourly_data_list[i].dt_local
Good(i) == hourly_data_list[i].is_good

\* the instants (whole hours) of the half-open range of an interval
Covered(iv) == Instant(iv[1])..(Instant(iv[2]) - 1)

\* C2 (as claimed): every sample inside an overall interval is admissible, the
\* sample before its start is not, and the sample at its end, when there is
\* one, is not.
C2_IntervalMaximality ==
    \A n \in DOMAIN overall_intervals :
        LET start == overall_intervals[n][1]
            end   == overall_intervals[n][2]
        IN  \A i \in 1..N :
                /\ (Instant(start) <= Instant(At(i)) /\ Instant(At(i)) < Instant(end))
                        => Good(i)
                /\ (At(i) = start /\ i > 1) => ~Good(i - 1)
                /\ At(i) = end => ~Good(i)

\* hours i and i+1 are admissible and on two calendar dates
Straddles(i) ==
    /\ i \in 1..(N - 1)
    /\ Good(i) /\ Good(i + 1)
    /\ DateOf(At(i)) # DateOf(At(i + 1))

\* the first hour of the run of admissible hours that holds hour i
RunStart(i) ==
    CHOOSE j \in 1..i :
        /\ \A m \in j..i : Good(m)
        /\ j = 1 \/ ~Good(j - 1)

\* the hour after the run of admissible hours that holds hour i (N + 1 at the end)
RunEnd(i) ==
    CHOOSE j \in (i + 1)..(N + 1) :
        /\ \A m \in i..(j - 1) : Good(m)
        /\ j = N + 1 \/ ~Good(j)

DailyIntervalIds ==
    UNION {{<<day, n>> : n \in DOMAIN daily_good_intervals_map[day]} :
                day \in DOMAIN daily_good_intervals_map}

DailyInterval(id) == daily_good_intervals_map[id[1]][id[2]]

\* C4 (as claimed): the per-day intervals cover the hours the overall intervals
\* cover, and no hour is covered by two per-day intervals.
C4_DayPartitionComplete ==
    pc = "done" =>
        /\ UNION {Covered(DailyInterval(id)) : id \in DailyIntervalIds}
           = UNION {Covered(overall_intervals[n]) : n \in DOMAIN overall_intervals}
        /\ \A a, b \in DailyIntervalIds :
              a # b => Covered(DailyInterval(a)) \cap Covered(DailyInterval(b)) = {}

\* C5 (as claimed): when the last sample is admissible, the last overall
\* interval and the last interval of the last day's bucket both end one hour
\* after the last sample's localized timestamp; samples that are all
\* admissible give the one overall interval from the first sample to that end.
C5_HorizonEndClose ==
    (pc = "done" /\ N > 0 /\ Good(N)) =>
        LET end == PlusHours(At(N), 1)
            day == daily_good_intervals_map[DayStr(At(N))]
        IN  /\ overall_intervals # <<>>
            /\ overall_intervals[Len(overall_intervals)][2] = end
            /\ day # <<>> /\ day[Len(day)][2] = end
            /\ (\A i \in 1..N : Good(i)) => overall_intervals = << <<At(1), end>> >>

\* the first hours of the runs of admissible hours
RunStarts == {i \in 1..N : Good(i) /\ (i = 1 \/ ~Good(i - 1))}

\* the n-th run start
NthRunStart(n) == CHOOSE i \in RunStarts : Cardinality({j \in RunStarts : j <= i}) = n

\* the close boundary of a run whose next hour is j
CloseTime(j) == IF j <= N THEN At(j) ELSE PlusHours(At(N), 1)

\* C6 (as claimed): the overall list is the run-length encoding of the
\* admissible hours: one interval per maximal run, in order, from the first
\* hour of the run to the first hour after it that is not admissible (one hour
\* after the last sample for a run that reaches the end).
C6_RunLengthEncoding ==
    pc = "done" =>
        /\ Len(overall_intervals) = Cardinality(RunStarts)
        /\ \A n \in DOMAIN overall_intervals :
              overall_intervals[n]
                = <<At(NthRunStart(n)), CloseTime(RunEnd(NthRunStart(n)))>>

\* temperature, dew point or precipitation of hour i is absent
PrimaryMissing(i) ==
    IsNone(temps_f[i]) \/ IsNone(dew_points_f[i]) \/ IsNone(precip_mm[i])

\* C7: a hour without temperature, dew point or precipitation is recorded as
\* not admissible with no predicted humidity, whatever its other values are;
\* evaluating such a hour never ends the call (a call that ended in the first
\* loop ended at a hour with primary data), and a call that returns has
\* evaluated every hour of the timestamp axis and bucketed every one.
C7_MissingPrimaryAbsorbed ==
    /\ \A i \in 1..N : PrimaryMissing(i) =>
          ~Good(i) /\ IsNone(hourly_data_list[i].rh_in)
    /\ (pc = "raised" /\ N < Len(times) /\ ~IsNone(indoor_ref_temp_c))
          => ~PrimaryMissing(N + 1)
    /\ (pc = "loop1" /\ N = 0) =>
          \A t \in TempValues, d \in DewValues, p \in PrecipValues,
             q \in ProbValues, a \in AqiValues, avail \in BOOLEAN :
                (IsNone(t) \/ IsNone(d) \/ IsNone(p)) =>
                    LET c == EvalHour(t, d, p, q, a, avail, indoor_ref_temp_c, inputs)
                    IN  c.exc = "" /\ ~c.is_good /\ IsNone(c.predicted_rh_in)
    /\ pc = "done" =>
          /\ N = Len(times)
          /\ \A i \in 1..N : \E day \in DOMAIN daily_chart_data_map :
                \E x \in DOMAIN daily_chart_data_map[day] :
                    daily_chart_data_map[day][x] = hourly_data_list[i]

\* C7 witness: a finished call of three or more hours, one of them without a
\* temperature and with a null precipitation probability, another admissible
C7_Witness ==
    /\ pc = "done"
    /\ N >= 3
    /\ \E i \in 2..(N - 1) :
          /\ PrimaryMissing(i) /\ IsNone(PrecipProbabilityAt(i))
          /\ Good(i - 1) /\ Good(i + 1)

\* the payload has a precipitation-probability array and hour i has no number in it
ProbAbsent(i) ==
    /\ "precipitation_probability" \in Hourly.keys
    /\ \/ i > Len(Hourly.precipitation_probability)
       \/ IsNone(Hourly.precipitation_probability[i])

\* C8 (as claimed): the call does not end at a hour whose precipitation
\* probability is a null entry or lies beyond the end of a shorter array; in
\* the result such a hour is not admissible, having failed precip_prob_ok; a
\* payload without the array gives every hour the probability 0.0.
C8_AbsentProbabilityFails ==
    /\ (pc = "raised" /\ N < Len(times)) => ~ProbAbsent(N + 1)
    /\ pc = "done" =>
          /\ \A i \in 1..N : ProbAbsent(i) => ~Good(i)
          /\ (N > 0 /\ ProbAbsent(N)) => ~checks.precip_prob_ok
          /\ "precipitation_probability" \notin Hourly.keys =>
                \A i \in 1..N : hourly_data_list[i].precip_prob = Some(0)

\* the AQI payload is unusable: absent, without its timestamp axis or its AQI
\* array, or with arrays of different lengths
AqiUnavailable ==
    \/ aqi_data.keys = {}
    \/ "hourly" \notin aqi_data.keys
    \/ "time" \notin aqi_data.hourly.keys
    \/ "us_aqi" \notin aqi_data.hourly.keys
    \/ Len(aqi_data.hourly.time) # Len(aqi_data.hourly.us_aqi)

\* the four checks that do not read the AQI, on the values of hour i
OtherChecks(i) ==
    /\ ~PrimaryMissing(i)
    /\ TempOk(temps_f[i], inputs)
    /\ RhOk(calculate_rh(indoor_ref_temp_c, ftoc(dew_points_f[i])), inputs)
    /\ PrecipOk(precip_mm[i])
    /\ ~IsNone(PrecipProbabilityAt(i))
    /\ PrecipProbOk(PrecipProbabilityAt(i), inputs)

\* C9: with an unusable AQI payload aq_available is false, aqi_ok holds for
\* the hour just evaluated when it has primary data, the admissibility of
\* every hour is the conjunction of the four other checks, and it is the same
\* for every AQI value and every max_aqi; with a usable payload whose values
\* all exceed max_aqi no hour is admissible.
C9_AqiUnavailableNeutral ==
    pc # "start" =>
        /\ AqiUnavailable =>
              /\ ~aq_available
              /\ (N > 0 /\ checks.primary_data_ok) => checks.aqi_ok
              /\ \A i \in 1..N : Good(i) = OtherChecks(i)
              /\ \A i \in 1..N, m \in {0, 50, 500}, a \in AqiValues \cup {Some(0), Some(500)} :
                    EvalHour(temps_f[i], dew_points_f[i], precip_mm[i],
                             PrecipProbabilityAt(i), a, aq_available,
                             indoor_ref_temp_c, [inputs EXCEPT !.max_aqi = m]).is_good
                    = Good(i)
        /\ (/\ ~AqiUnavailable
            /\ \A n \in DOMAIN aqi_data.hourly.us_aqi :
                  /\ ~IsNone(aqi_data.hourly.us_aqi[n])
                  /\ Val(aqi_data.hourly.us_aqi[n]) > inputs.max_aqi)
              => \A i \in 1..N : ~Good(i)

\* C9 witness: a finished call whose AQI arrays differ in length and hold a
\* value above max_aqi, with an admissible hour
C9_Witness ==
    /\ pc = "done"
    /\ AqiUsable(aqi_data) /\ "us_aqi" \in aqi_data.hourly.keys
    /\ Len(aqi_data.hourly.time) # Len(aqi_data.hourly.us_aqi)
    /\ \E n \in DOMAIN aqi_data.hourly.us_aqi :
          aqi_data.hourly.us_aqi[n] = Some(51)
    /\ \E i \in 1..N : Good(i)

\* the places of the AQI timestamp axis that hold the timestamp of hour i
AqiPlaces(i) == {n \in DOMAIN aqi_data.hourly.time : aqi_data.hourly.time[n] = times[i]}

\* the last of them
LastAqiPlace(i) == CHOOSE n \in AqiPlaces(i) : \A m \in AqiPlaces(i) : m <= n

\* C10: with a usable AQI payload, the AQI of a hour is the value the payload
\* holds for the hour's timestamp, wherever it stands in the payload; a hour
\* whose timestamp the payload does not hold, or holds with a null value, has
\* no AQI, fails aqi_ok and is not admissible.
C10_AqiJoinByTimestamp ==
    (pc # "start" /\ ~AqiUnavailable) =>
        /\ aq_available
        /\ \A i \in 1..N :
              /\ AqiPlaces(i) # {} =>
                    hourly_data_list[i].aqi_val = aqi_data.hourly.us_aqi[LastAqiPlace(i)]
              /\ AqiPlaces(i) = {} => IsNone(hourly_data_list[i].aqi_val)
              /\ IsNone(hourly_data_list[i].aqi_val) => ~Good(i)
        /\ (N > 0 /\ IsNone(hourly_data_list[N].aqi_val)) => ~checks.aqi_ok

\* C10 witness: a finished call with a usable AQI payload where a hour that
\* passes the four other checks has no AQI entry, and an admissible hour took
\* its AQI from another place of the payload than its own place
C10_Witness ==
    /\ pc = "done"
    /\ ~AqiUnavailable
    /\ \E i \in 1..N : OtherChecks(i) /\ AqiPlaces(i) = {} /\ ~Good(i)
    /\ \E j \in 1..N : Good(j) /\ j \notin AqiPlaces(j)

\* the weather payload is structurally incomplete: empty, without its hourly
\* section, its timestamp axis, its temperature array or its dew-point array
Malformed ==
    \/ weather_data.keys = {}
    \/ "hourly" \notin weather_data.keys
    \/ "time" \notin Hourly.keys
    \/ "temperature_2m" \notin Hourly.keys
    \/ "dew_point_2m" \notin Hourly.keys

\* no hour has been processed and nothing has been produced
NoPartialOutput ==
    /\ hourly_data_list = <<>>
    /\ overall_good_periods_text = <<>>
    /\ overall_intervals = <<>>
    /\ daily_chart_data_map = EmptyDict
    /\ daily_good_intervals_map = EmptyDict
    /\ daily_good_periods_text_map = EmptyDict

\* the result of an error return: no periods and three empty maps
ErrorResult ==
    Some([periods |-> <<>>, daily_chart_data |-> EmptyDict,
          daily_good_intervals |-> EmptyDict, daily_good_periods_text |-> EmptyDict])

\* C11 (as claimed): a call with a structurally incomplete weather payload
\* returns an error result to its caller, without an exception, before any
\* hour is processed and with no partial output.
C11_StructuralErrorResult ==
    (Malformed /\ pc # "start") =>
        /\ pc = "done"
        /\ raised = ""
        /\ result = ErrorResult
        /\ NoPartialOutput

\* the reference temperature cannot be converted to Celsius
Unconvertible == IsNone(inputs.indoor_ref_temp) \/ inputs.indoor_ref_temp = NonNumeric

\* C12 (as claimed): a call whose reference temperature is None or not a number
\* returns an error result to its caller, without an exception, before any
\* hour is processed and with no interval produced.
C12_UnconvertibleReference ==
    (Unconvertible /\ pc # "start") =>
        /\ pc = "done"
        /\ raised = ""
        /\ result = ErrorResult
        /\ IsNone(indoor_ref_temp_c)
        /\ NoPartialOutput

\* the payload reports no timezone, or one that pytz does not know
TzUnusable == "timezone" \notin weather_data.keys \/ weather_data.timezone \notin KnownZones

\* the values of the hour after the last processed one make the first loop raise
NextHourRaises ==
    LET i == N + 1
    IN  /\ i <= Len(times)
        /\ \/ i > Len(temps_f) \/ i > Len(dew_points_f) \/ i > Len(precip_mm)
           \/ EvalHour(temps_f[i], dew_points_f[i], precip_mm[i], PrecipProbabilityAt(i),
                       DictGet(aqi_values_dict, times[i]), aq_available,
                       indoor_ref_temp_c, inputs).exc # ""

\* C13: when the weather payload reports no timezone or an unknown one, the
\* zone of the call is UTC, every processed timestamp is localized in UTC, and
\* the call does not end in Setup: it ends with an exception only at a hour
\* whose own values raise.
C13_TimezoneFallback ==
    (TzUnusable /\ ~Malformed /\ pc # "start") =>
        /\ tz = "UTC"
        /\ \A i \in 1..N : At(i) = Localize(times[i], "UTC")
        /\ pc = "raised" => NextHourRaises

\* C13 witness: a finished call whose payload names an unknown zone, with a
\* processed hour and an interval in the result
C13_Witness ==
    /\ pc = "done"
    /\ "timezone" \in weather_data.keys
    /\ weather_data.timezone = "Mars/Olympus"
    /\ N > 1
    /\ overall_intervals # <<>>

\* es <= 0 (line 63): the saturation pressure at temp_c is not positive
Degenerate(temp_c) == MagnusRaises(Val(temp_c)) = "" /\ MagnusVaporPressure(Val(temp_c)) <= 0

\* C14 (as claimed): a call of calculate_rh never ends with an exception; it
\* returns None or a humidity from 0 to 100 percent, and None when one of the
\* arguments is None or the saturation pressure is not positive.
C14_HumidityTotal ==
    /\ pc = "calculate_rh" \/ pc = "returned"
    /\ pc = "returned" =>
          /\ IsNone(rh_value) \/ Val(rh_value) \in 0..10000
          /\ (IsNone(rh_args[1]) \/ IsNone(rh_args[2])) => IsNone(rh_value)
          /\ (~IsNone(rh_args[1]) /\ ~IsNone(rh_args[2]) /\ Degenerate(rh_args[1]))
                => IsNone(rh_value)

\* the periods the same call returns in a process whose zone is local_zone:
\* the zone of the process is read only at line 267, for the interval still
\* open at the end of the horizon
PeriodsUnder(local_zone) ==
    IF IsNone(overall_start_time) THEN overall_good_periods_text
    ELSE [overall_good_periods_text EXCEPT
             ![Len(overall_good_periods_text)] =
                 OverallText(Val(overall_start_time),
                             PlusHours(AsTimezoneFrom(times[Len(times)], tz, local_zone), 1))]

\* C15 (as claimed): the result of a call is fixed by its arguments; in
\* particular the periods it returns are the ones the same call returns
\* whatever the zone of the process is.
C15_Deterministic ==
    pc = "done" => \A z \in KnownZones : Val(result).periods = PeriodsUnder(z)

\* the call leaves its arguments as they are
ArgsUnchanged == [][UNCHANGED args]_vars

\* the samples the second loop has taken
Taken == SubSeq(hourly_data_list, 1, k)

\* the taken samples whose local date is the one of the key day, in input order
SamplesOf(day) == SelectSeq(Taken, LAMBDA e : DayStr(e.dt_local) = day)

\* C16 (as claimed): during and after the second loop, the date of every taken
\* sample has a bucket, and every bucket holds exactly the taken samples of its
\* own date, in input order, whatever the order of the timestamps is.
C16_BucketByOwnDate ==
    pc \in {"loop2", "done"} =>
        /\ \A i \in 1..k : DayStr(At(i)) \in DOMAIN daily_chart_data_map
        /\ \A day \in DOMAIN daily_chart_data_map :
              daily_chart_data_map[day] = SamplesOf(day)

\* the list t is the list s with zero or more elements appended
IsPrefix(s, t) == Len(s) <= Len(t) /\ SubSeq(t, 1, Len(s)) = s

\* every list of the per-day map d is kept by the step, up to appended
\* elements, and only the list of the current day may have grown
BucketsAppendOnly(d, next_d) ==
    \A day \in DOMAIN d :
        /\ day \in DOMAIN next_d
        /\ IsPrefix(d[day], next_d[day])
        /\ Some(day) # current_day_str => next_d[day] = d[day]

\* C17: no step of the call modifies, removes or reorders an interval already
\* in the overall list or in a list of a day bucket: each list only grows at
\* its end, and a bucket that is no longer the current one is left as it is.
C17_AppendOnly ==
    [][/\ IsPrefix(overall_good_periods_text, overall_good_periods_text')
       /\ IsPrefix(overall_intervals, overall_intervals')
       /\ BucketsAppendOnly(daily_good_intervals_map, daily_good_intervals_map')
       /\ BucketsAppendOnly(daily_good_periods_text_map, daily_good_periods_text_map')]_vars

\* C17 witness: a finished call with two overall intervals, a closed bucket
\* that holds an interval and a later bucket that holds two
C17_Witness ==
    /\ pc = "done"
    /\ Len(overall_intervals) >= 2
    /\ \E d1, d2 \in DOMAIN daily_good_intervals_map :
          /\ Some(d2) = current_day_str
          /\ d1 # d2
          /\ Len(daily_good_intervals_map[d1]) >= 1
          /\ Len(daily_good_intervals_map[d2]) >= 2

\* the text that describes an interval: its start and its end as '%I:%M %p'
TextOf(iv) == [start |-> FmtTime(iv[1]), end |-> FmtTime(iv[2])]

\* C18: in every state of the second loop and in the result, the three
\* per-day maps have the same keys, and for each day the text list is as long
\* as the interval list and its i-th text is the formatted i-th interval.
C18_MapsConsistent ==
    /\ pc \in {"loop2", "done"} =>
          /\ DOMAIN daily_good_intervals_map = DOMAIN daily_chart_data_map
          /\ DOMAIN daily_good_periods_text_map = DOMAIN daily_chart_data_map
          /\ \A day \in DOMAIN daily_chart_data_map :
                /\ Len(daily_good_periods_text_map[day]) = Len(daily_good_intervals_map[day])
                /\ \A i \in DOMAIN daily_good_intervals_map[day] :
                      daily_good_periods_text_map[day][i] =
                          TextOf(daily_good_intervals_map[day][i])
    /\ pc = "done" =>
          /\ Val(result).daily_chart_data = daily_chart_data_map
          /\ Val(result).daily_good_intervals = daily_good_intervals_map
          /\ Val(result).daily_good_periods_text = daily_good_periods_text_map
          /\ DOMAIN Val(result).daily_good_intervals = DOMAIN Val(result).daily_chart_data
          /\ DOMAIN Val(result).daily_good_periods_text = DOMAIN Val(result).daily_chart_data

\* C18 witness: a result with a day that has samples and no interval, and a
\* day with two intervals
C18_Witness ==
    /\ pc = "done"
    /\ \E d1, d2 \in DOMAIN Val(result).daily_chart_data :
          /\ Val(result).daily_chart_data[d1] # <<>>
          /\ Val(result).daily_good_intervals[d1] = <<>>
          /\ Len(Val(result).daily_good_intervals[d2]) = 2
          /\ Len(Val(result).daily_good_periods_text[d2]) = 2

\* the timestamps of the payload are strictly increasing
StrictlyIncreasing == \A i \in 1..(Len(times) - 1) : times[i] < times[i + 1]

\* every interval of the list is non-empty, and each one ends before the next
\* one starts, so that the starts are strictly increasing
WellFormed(list) ==
    /\ \A i \in DOMAIN list : Instant(list[i][1]) < Instant(list[i][2])
    /\ \A i \in 1..(Len(list) - 1) :
          /\ Instant(list[i][2]) <= Instant(list[i + 1][1])
          /\ Instant(list[i][1]) < Instant(list[i + 1][1])

\* the one interval that may be open starts after every interval of the list
OpenAfter(start, list) ==
    ~IsNone(start) => \A i \in DOMAIN list : Instant(list[i][2]) <= Instant(Val(start))

\* the per-day part: every list of a day bucket is well formed, its intervals
\* start on the date of the bucket, and the open interval comes after them
DailyWellFormed ==
    \A day \in DOMAIN daily_good_intervals_map :
        /\ WellFormed(daily_good_intervals_map[day])
        /\ \A i \in DOMAIN daily_good_intervals_map[day] :
              DayStr(daily_good_intervals_map[day][i][1]) = day
        /\ pc = "loop2" => OpenAfter(daily_start_dt, daily_good_intervals_map[day])

\* C19 (as claimed): with strictly increasing timestamps, the overall list and
\* every per-day list hold non-empty, pairwise disjoint intervals in strictly
\* increasing order of start; the interval that is open, if any, starts after
\* them; a per-day interval starts on the date of its bucket.
C19_WellFormedIntervals ==
    StrictlyIncreasing =>
        /\ WellFormed(overall_intervals)
        /\ pc = "loop1" => OpenAfter(overall_start_time, overall_intervals)
        /\ DailyWellFormed

=============================================================================
